---- MODULE Spec2Model ----
(***************************************************************************)
(* Model of the Navigator Agent Runner (tools/runner/runner.py): the path  *)
(* sanitizer, the argument-vector builder, the rate limiter and the /run   *)
(* handler.                                                                *)
(*                                                                         *)
(* Strings are sequences of one-character strings, so that substring,      *)
(* prefix and per-character tests are computed as Python computes them.    *)
(* A message is a sequence whose elements are either characters or the     *)
(* fixed words of an f-string ("Invalid path: ").                          *)
(***************************************************************************)
EXTENDS Integers, Sequences, FiniteSets, TLC

VARIABLES
    now,               \* time.time(), in seconds
    rate_limit_store,  \* rate_limit_store["requests"]: the accepted timestamps
    history,           \* every check_rate_limit call so far: <<time, accepted>>
    request,           \* the request (or direct call) handled last
    response,          \* what it was answered with
    spawned,           \* argument vectors handed to subprocess.run by that request
    log_lines,         \* structured log lines printed by that request
    remote_calls,      \* calls that request made to the MOVA Engine, with the replies
    stages,            \* the stages a /run request has passed, in order
    tasks,             \* the requests the event loop serves concurrently
    running            \* the task that holds the event loop's thread, if any

vars == <<now, rate_limit_store, history, request, response, spawned, log_lines,
          remote_calls, stages, tasks, running>>

(***************************************************************************)
(* Bounds of the model                                                     *)
(***************************************************************************)
MaxPathLen == 4   \* longest path string enumerated for sanitize_path
MaxIdLen   == 2   \* longest identifier string enumerated for build_argv
MaxTime    == 90  \* the clock stops here
TickStep   == 30  \* seconds between two instants of the rate limiter's clock
MaxCalls   == 18  \* direct check_rate_limit calls in one run
MaxSlack   == 1   \* stream lengths are enumerated this far around the output limit
MaxBuilds  == 2   \* calls of build_argv with the same inputs
MaxTasks   == 2   \* requests the event loop serves at once

(***************************************************************************)
(* Characters and strings                                                  *)
(***************************************************************************)
\* Characters for which str.isalnum() is true. "U+00E9" stands for the
\* letter e-acute: isalnum() is Unicode-aware.
AlnumChars ==
    {"a", "b", "c", "d", "e", "f", "g", "h", "i", "j", "k", "l", "m", "n", "o",
     "p", "q", "r", "s", "t", "u", "v", "w", "x", "y", "z", "C", "T", "F", "N",
     "0", "1", "2", "3", "4", "5", "6", "7", "8", "9", "U+00E9"}

\* The ASCII letters and digits among them
AsciiAlnumChars == AlnumChars \ {"U+00E9"}
AsciiLetters == AsciiAlnumChars \ {"0", "1", "2", "3", "4", "5", "6", "7", "8", "9"}

\* s.replace(c, ""): every occurrence of the character c removed
Remove(s, c) == SelectSeq(s, LAMBDA ch : ch # c)

\* s.isalnum(): at least one character and all of them alphanumeric
isalnum(s) == Len(s) > 0 /\ \A i \in 1..Len(s) : s[i] \in AlnumChars

\* value.replace("_", "").replace("-", "").isalnum()
IdentifierOk(s) == isalnum(Remove(Remove(s, "_"), "-"))

\* sub in s
Contains(s, sub) ==
    \E i \in 0..(Len(s) - Len(sub)) : SubSeq(s, i + 1, i + Len(sub)) = sub

\* s.startswith(p)
StartsWith(s, p) == Len(s) >= Len(p) /\ SubSeq(s, 1, Len(p)) = p

\* all strings over the alphabet A of length at most n
StringsUpTo(A, n) == UNION {[1..k -> A] : k \in 0..n}

(***************************************************************************)
(* Paths: pathlib on POSIX                                                 *)
(***************************************************************************)
\* The k-th element of a finite set of integers, in increasing order
Sorted(S) ==
    [k \in 1..Cardinality(S) |->
        CHOOSE i \in S : Cardinality({j \in S : j < i}) = k - 1]

\* The parts of a relative path string: split at "/", empty parts and "."
\* parts dropped (PurePosixPath parsing); ".." parts are kept.
Components(s) ==
    LET seps    == {0, Len(s) + 1} \cup {i \in 1..Len(s) : s[i] = "/"}
        nxt(i)  == CHOOSE j \in seps : j > i /\ \A k \in seps : k > i => k >= j
        part(i) == SubSeq(s, i + 1, nxt(i) - 1)
        starts  == {i \in seps : i <= Len(s) /\ part(i) # <<>> /\ part(i) # <<".">>}
        order   == Sorted(starts)
    IN  [k \in 1..Len(order) |-> part(order[k])]

\* str() of an absolute path given by its parts
RECURSIVE PathStr(_)
PathStr(parts) ==
    IF parts = <<>> THEN <<"/">>
    ELSE IF Len(parts) = 1 THEN <<"/">> \o parts[1]
    ELSE PathStr(SubSeq(parts, 1, Len(parts) - 1)) \o <<"/">> \o parts[Len(parts)]

\* PROJECT_ROOT: a canonical absolute directory, here /r
PROJECT_ROOT == << <<"r">> >>

\* The symbolic links of the file system the service runs on: /r/l points
\* outside the root, /r/s points to the sibling directory /r2, whose name
\* begins with the root's name.
SymlinkTarget(parts) ==
    IF parts = << <<"r">>, <<"l">> >> THEN << <<"o">> >>
    ELSE IF parts = << <<"r">>, <<"s">> >> THEN << <<"r", "2">> >>
    ELSE parts

\* Path.resolve(): ".." removes the last part (the root is its own parent),
\* symbolic links are followed; the target need not exist.
RECURSIVE ResolveFrom(_, _)
ResolveFrom(done, todo) ==
    IF todo = <<>> THEN done
    ELSE IF todo[1] = <<".", ".">>
         THEN ResolveFrom(IF done = <<>> THEN <<>> ELSE SubSeq(done, 1, Len(done) - 1),
                          Tail(todo))
    ELSE ResolveFrom(SymlinkTarget(Append(done, todo[1])), Tail(todo))

resolve(parts) == ResolveFrom(<<>>, parts)

\* base_path / path: an absolute right operand replaces the left one
JoinPath(base, s) ==
    IF StartsWith(s, <<"/">>) THEN Components(s) ELSE base \o Components(s)

(***************************************************************************)
(* Values of the args mapping (JSON values) and their str()                *)
(***************************************************************************)
StrVal(s)  == [t |-> "str", v |-> s]
IntVal(n)  == [t |-> "int", v |-> n]
BoolVal(b) == [t |-> "bool", v |-> b]
ListVal(s) == [t |-> "list", v |-> s]   \* a list holding the one string s
DictVal(s) == [t |-> "dict", v |-> s]   \* a mapping {"k": s}

\* str(value)
StrOf(value) ==
    CASE value.t = "str"  -> value.v
      [] value.t = "int"  -> <<"5">>
      [] value.t = "bool" -> IF value.v THEN <<"T", "r", "u", "e">>
                                        ELSE <<"F", "a", "l", "s", "e">>
      [] value.t = "list" -> <<"[", "'">> \o value.v \o <<"'", "]">>
      [] value.t = "dict" -> <<"{", "'", "k", "'", ":", " ", "'">> \o value.v \o <<"'", "}">>

(***************************************************************************)
(* Outcomes of a call: a returned value or a raised exception              *)
(***************************************************************************)
Return(v) == [ok |-> TRUE, val |-> v]
RaiseValueError(msg) == [ok |-> FALSE, exc |-> "ValueError", status |-> 0, detail |-> msg]
RaiseHTTP(code, msg) == [ok |-> FALSE, exc |-> "HTTPException", status |-> code, detail |-> msg]

(***************************************************************************)
(* sanitize_path                                                           *)
(***************************************************************************)
\* runner.py:122  ".." in path or path.startswith("/")
HasTraversal(path) == Contains(path, <<".", ".">>) \/ StartsWith(path, <<"/">>)

\* runner.py:126-127  str(resolved).startswith(str(base_path))
ResolvedInside(full_path, base_path) ==
    StartsWith(PathStr(resolve(full_path)), PathStr(base_path))

\* Every exception raised in the body, the two ValueErrors and the TypeError
\* of base_path / path for a path that is no string included, is caught at
\* line 131 and raised again as ValueError(f"Invalid path: {path}").
\* runner.py:121-130, with full_path = base_path / path
CheckedPath(path, full_path, base_path) ==
    IF HasTraversal(path)
       THEN RaiseValueError(<<"Invalid path: ">> \o path)
    ELSE IF ~ResolvedInside(full_path, base_path)
       THEN RaiseValueError(<<"Invalid path: ">> \o path)
    ELSE Return(full_path)

sanitize_path(path, base_path) ==
    IF path.t # "str" THEN RaiseValueError(<<"Invalid path: ">> \o StrOf(path))
    ELSE CheckedPath(path.v, JoinPath(base_path, path.v), base_path)

(***************************************************************************)
(* The allow-list and build_argv                                           *)
(***************************************************************************)
\* A template item is a literal string or a dict of placeholders; a dict is
\* iterated in insertion order, so it is the sequence of its (name, config)
\* pairs. A config is a mapping that may lack "type" and "required".
Lit(word)  == [kind |-> "str", tok |-> <<word>>]
Slot(pairs) == [kind |-> "dict", pairs |-> pairs]
Pair(name, config) == [name |-> name, config |-> config]

\* config.get(key, default)
Get(config, key, default) == IF key \in DOMAIN config THEN config[key] ELSE default

\* The allow-list app.state.allowlist holds after startup: the templates of
\* the test suites, one with an optional placeholder before two required
\* ones, and one with optional placeholders only.
ALLOWLIST ==
    (<<"b", "u", "i", "l", "d">> :> <<Lit("make"), Lit("build")>>)
    @@ (<<"e", "c", "h", "o", "_", "t", "e", "s", "t">> :>
          <<Lit("echo"), Slot(<<Pair("msg", [type |-> "string", required |-> TRUE])>>)>>)
    @@ (<<"v", "a", "l", "i", "d", "a", "t", "e">> :>
          <<Lit("mova"), Lit("validate"),
            Slot(<<Pair("file", [type |-> "file", required |-> TRUE])>>)>>)
    @@ (<<"l", "o", "g", "s">> :>
          <<Lit("mova"), Lit("logs"), Slot(<<Pair("run_id", [type |-> "run_id"])>>)>>)
    @@ (<<"r", "u", "n">> :>
          <<Lit("mova"), Lit("run"),
            Slot(<<Pair("file", [type |-> "file", required |-> FALSE])>>),
            Slot(<<Pair("run_id", [type |-> "run_id"])>>),
            Slot(<<Pair("msg", [type |-> "string", required |-> TRUE])>>)>>)
    @@ (<<"o", "p", "t">> :>
          <<Lit("mova"),
            Slot(<<Pair("file", [type |-> "file", required |-> FALSE])>>),
            Lit("--tail"),
            Slot(<<Pair("run_id", [type |-> "run_id", required |-> FALSE]),
                   Pair("msg", [required |-> FALSE])>>)>>)

\* runner.py:170  the run_id test
RunIdOk(value) == IdentifierOk(value)

\* runner.py:178  the longest free string accepted
MAX_ARG_LEN == 1000

\* runner.py:178  len(value) > 1000
TooLong(value) == Len(value) > MAX_ARG_LEN

\* runner.py:165-166  str(sanitized), unless sanitize_path raised
FileElement(sanitized) ==
    IF sanitized.ok THEN Return(PathStr(sanitized.val)) ELSE sanitized

\* runner.py:161-185: the argv element for one placeholder that has a value
Substitute(value, placeholder, config) ==
    IF value.t = "str" THEN
        IF Get(config, "type", "None") = "file" THEN
            FileElement(sanitize_path(value, PROJECT_ROOT))
        ELSE IF Get(config, "type", "None") = "run_id" THEN
            IF ~RunIdOk(value.v)
               THEN RaiseHTTP(400, <<"Invalid run_id format: ">> \o value.v)
               ELSE Return(value.v)
        ELSE IF TooLong(value.v)
               THEN RaiseHTTP(400, <<"Argument too long: ", placeholder>>)
               ELSE Return(value.v)
    ELSE Return(StrOf(value))

\* faulty variant: config.get("required", False)
IsRequired_DefaultFalse(config) == Get(config, "required", FALSE)

\* runner.py:154  config.get("required", True)
IsRequired(config) == Get(config, "required", TRUE)

\* runner.py:152-185: the placeholders of one dict item. A raised exception
\* ends the loop; an element is appended and the loop goes on.
RECURSIVE BuildPlaceholders(_, _, _)
AppendElement(element, pairs, args, argv) ==
    IF element.ok THEN BuildPlaceholders(pairs, args, Append(argv, element.val))
                  ELSE element

OnePlaceholder(placeholder, config, rest, args, argv) ==
    IF placeholder \notin DOMAIN args THEN
        IF IsRequired(config)
           THEN RaiseHTTP(400, <<"Missing required argument: ", placeholder>>)
           ELSE BuildPlaceholders(rest, args, argv)
    ELSE AppendElement(Substitute(args[placeholder], placeholder, config), rest, args, argv)

BuildPlaceholders(pairs, args, argv) ==
    IF pairs = <<>> THEN Return(argv)
    ELSE OnePlaceholder(Head(pairs).name, Head(pairs).config, Tail(pairs), args, argv)

\* faulty variant: argv.insert(0, item)
AppendLiteral_Front(argv, item) == <<item.tok>> \o argv

\* runner.py:149  argv.append(item)
AppendLiteral(argv, item) == Append(argv, item.tok)

\* runner.py:147-185: the loop over the template; an item that is neither a
\* string nor a dict is passed over
RECURSIVE BuildItems(_, _, _)
AfterPlaceholders(built, rest, args) ==
    IF built.ok THEN BuildItems(rest, args, built.val) ELSE built

OneItem(item, rest, args, argv) ==
    IF item.kind = "str" THEN BuildItems(rest, args, AppendLiteral(argv, item))
    ELSE IF item.kind = "dict"
         THEN AfterPlaceholders(BuildPlaceholders(item.pairs, args, argv), rest, args)
    ELSE BuildItems(rest, args, argv)

BuildItems(template, args, argv) ==
    IF template = <<>> THEN Return(argv)
    ELSE OneItem(Head(template), Tail(template), args, argv)

\* runner.py:139  cmd_id not in allowlist
NotAllowed(cmd_id, allowlist) == cmd_id \notin DOMAIN allowlist

\* faulty variant: allowlist.get(cmd_id, []) in place of the membership test
build_argv_default(cmd_id, args, allowlist) ==
    IF NotAllowed(cmd_id, allowlist) THEN Return(<<>>)
    ELSE BuildItems(allowlist[cmd_id], args, <<>>)

build_argv(cmd_id, args, allowlist) ==
    IF NotAllowed(cmd_id, allowlist)
       THEN RaiseHTTP(403, <<"Command '">> \o cmd_id \o <<"' not in allow-list">>)
       ELSE BuildItems(allowlist[cmd_id], args, <<>>)

\* the names of the placeholders of a template
PlaceholderNames(template) ==
    UNION {{template[i].pairs[j].name : j \in DOMAIN template[i].pairs} :
              i \in {i \in DOMAIN template : template[i].kind = "dict"}}

\* faulty variant: value = args.pop(placeholder), the call consumes what it
\* substitutes
ArgsAfterCall_Popped(cmd_id, args, allowlist) ==
    IF NotAllowed(cmd_id, allowlist) THEN args
    ELSE [key \in (DOMAIN args) \ PlaceholderNames(allowlist[cmd_id]) |-> args[key]]

\* runner.py:153-163  the caller's dict after the call: args is only read
\* ("placeholder not in args", "args[placeholder]")
ArgsAfterCall(cmd_id, args, allowlist) == args

\* runner.py:139-147  the caller's allow-list after the call: it is only
\* read ("cmd_id not in allowlist", "allowlist[cmd_id]", the loop)
AllowlistAfterCall(cmd_id, args, allowlist) == allowlist

(***************************************************************************)
(* check_rate_limit                                                        *)
(***************************************************************************)
None == <<>>
Some(x) == <<x>>

\* runner.py:99  the window, in seconds
WINDOW_SECONDS == 60
\* runner.py:107  accepted requests per window
RATE_LIMIT == 15

\* runner.py:102-104  the timestamps that stay
Prune(requests, t) == SelectSeq(requests, LAMBDA ts : ts > t - WINDOW_SECONDS)

\* faulty variant: len(...) > 15
AtCapacity_OffByOne(requests) == Len(requests) > RATE_LIMIT

\* runner.py:107
AtCapacity(requests) == Len(requests) >= RATE_LIMIT

\* faulty variant: the rejected attempt is appended as well
CheckPruned_RecordsRejected(kept, t) ==
    [result |-> IF AtCapacity(kept)
                   THEN RaiseHTTP(429, <<"Rate limit exceeded: 15 requests per minute">>)
                   ELSE Return(None),
     requests |-> Append(kept, t)]

\* The store is pruned also when the call is rejected; the attempt is
\* recorded only when it is accepted.
CheckPruned(kept, t) ==
    IF AtCapacity(kept)
       THEN [result |-> RaiseHTTP(429, <<"Rate limit exceeded: 15 requests per minute">>),
             requests |-> kept]
       ELSE [result |-> Return(None), requests |-> Append(kept, t)]

check_rate_limit(requests, t) == CheckPruned(Prune(requests, t), t)

(***************************************************************************)
(* execute_command                                                         *)
(***************************************************************************)
\* runner.py:212  characters kept of each stream
OUTPUT_LIMIT == 4000

\* faulty variant: s[:4000], the head of the stream
OutputTail_Head(s) ==
    IF Len(s) > OUTPUT_LIMIT THEN SubSeq(s, 1, OUTPUT_LIMIT) ELSE s

\* runner.py:213-214  s[-4000:] if s else ""
OutputTail(s) ==
    IF Len(s) > OUTPUT_LIMIT THEN SubSeq(s, Len(s) - OUTPUT_LIMIT + 1, Len(s)) ELSE s

\* What the child does is the environment's choice: whether it can be
\* spawned, how long it runs, what it prints and how it exits.
\* subprocess.run raises TimeoutExpired when the child outlives timeout_sec.
TimedOut(child, timeout_sec) == child.run_secs > timeout_sec

\* seconds between the two time.time() readings
Elapsed(child, timeout_sec) ==
    IF ~child.spawns THEN 0
    ELSE IF TimedOut(child, timeout_sec) THEN timeout_sec
    ELSE child.run_secs

\* runner.py:201-208  subprocess.run: the finished process, TimeoutExpired
\* after the child was killed, or the error of the spawn
subprocess_run(argv, timeout_sec, child) ==
    IF ~child.spawns THEN [ok |-> FALSE, exc |-> child.error, status |-> 0,
                           detail |-> <<child.error>>]
    ELSE IF TimedOut(child, timeout_sec)
       THEN [ok |-> FALSE, exc |-> "TimeoutExpired", status |-> 0, detail |-> <<>>]
    ELSE Return([returncode |-> child.returncode, stdout |-> child.stdout,
                 stderr |-> child.stderr])

\* faulty variant: only the spawn error of a missing executable is caught
Outcome_TimeoutRaised(ran, timeout_sec, duration_ms) ==
    IF ran.ok THEN
        [returncode |-> ran.val.returncode,
         stdout_tail |-> OutputTail(ran.val.stdout),
         stderr_tail |-> OutputTail(ran.val.stderr),
         duration_ms |-> duration_ms]
    ELSE IF ran.exc = "FileNotFoundError" THEN
        [returncode |-> -1, stdout_tail |-> <<>>,
         stderr_tail |-> <<"Execution error: ">> \o ran.detail,
         duration_ms |-> duration_ms]
    ELSE ran

\* runner.py:210-238: the result, or what the except clauses return
Outcome(ran, timeout_sec, duration_ms) ==
    IF ran.ok THEN
        [returncode |-> ran.val.returncode,
         stdout_tail |-> OutputTail(ran.val.stdout),
         stderr_tail |-> OutputTail(ran.val.stderr),
         duration_ms |-> duration_ms]
    ELSE IF ran.exc = "TimeoutExpired" THEN
        [returncode |-> -1, stdout_tail |-> <<>>,
         stderr_tail |-> <<"Command timed out after ", ToString(timeout_sec), " seconds">>,
         duration_ms |-> duration_ms]
    ELSE
        [returncode |-> -1, stdout_tail |-> <<>>,
         stderr_tail |-> <<"Execution error: ">> \o ran.detail,
         duration_ms |-> duration_ms]

execute_command(argv, timeout_sec, child) ==
    Outcome(subprocess_run(argv, timeout_sec, child), timeout_sec,
            Elapsed(child, timeout_sec) * 1000)

(***************************************************************************)
(* CommandRequest and the /run handler                                     *)
(***************************************************************************)
\* runner.py:54-61
validate_cmd_id(cmd_id) == IdentifierOk(cmd_id)

\* runner.py:63-68
validate_args(args) ==
    \A key \in DOMAIN args :
        args[key].t = "str" =>
            ~(Contains(args[key].v, <<"\n">>) \/ Contains(args[key].v, <<"\r">>))

ShapeOk(req) == validate_cmd_id(req.cmd_id) /\ validate_args(req.args)

\* An HTTP error answer: a status and {"detail": ...}
HttpError(code, msg) == [status |-> code, detail |-> Some(msg), body |-> None]

\* A 200 answer carrying a CommandResponse
CommandResponse(ok, argv, rc, out, err, dur, error) ==
    [status |-> 200, detail |-> None,
     body |-> Some([ok |-> ok, argv |-> argv, returncode |-> rc, stdout_tail |-> out,
                    stderr_tail |-> err, duration_ms |-> dur, error |-> error])]

\* runner.py:437-440: an HTTPException goes to the client with its status;
\* any other exception becomes a 200 answer with ok=false
BuildFailure(built) ==
    IF built.exc = "HTTPException"
       THEN HttpError(built.status, built.detail)
       ELSE CommandResponse(FALSE, None, None, None, None, None,
                            Some(<<"Internal error: ">> \o built.detail))

\* faulty variant: ok=True whatever the return code
ExecutedResponse_AlwaysOk(argv, result) ==
    CommandResponse(TRUE, Some(argv), Some(result.returncode),
                    Some(result.stdout_tail), Some(result.stderr_tail),
                    Some(result.duration_ms), None)

\* runner.py:428-435
ExecutedResponse(argv, result) ==
    CommandResponse(result.returncode = 0, Some(argv), Some(result.returncode),
                    Some(result.stdout_tail), Some(result.stderr_tail),
                    Some(result.duration_ms), None)

\* What a handler leaves: the answer, the rate window, the argument vectors
\* it ran, the log lines it printed and the seconds it took.
Handled(resp, requests, ran, lines, secs) ==
    [response |-> resp, requests |-> requests, spawned |-> ran, log_lines |-> lines,
     secs |-> secs, stages |-> <<>>]

\* the handler has passed a stage before it went on to what it left
Stage(name, handled) == [handled EXCEPT !.stages = <<name>> \o @]

\* faulty variant: a failed execution is tried once more
Executed_Retried(req, requests, argv, result, secs) ==
    Stage("Executed",
          Handled(ExecutedResponse(argv, result), requests,
                  IF result.returncode = 0 THEN <<argv>> ELSE <<argv, argv>>,
                  <<[action |-> req.cmd_id, argv |-> argv, rc |-> result.returncode,
                     dur_ms |-> result.duration_ms]>>,
                  secs))

\* runner.py:415-435: execution, the log line, the answer
Executed(req, requests, argv, result, secs) ==
    Stage("Executed",
          Handled(ExecutedResponse(argv, result), requests, <<argv>>,
                  <<[action |-> req.cmd_id, argv |-> argv, rc |-> result.returncode,
                     dur_ms |-> result.duration_ms]>>,
                  secs))

\* faulty variant: the dry run hands the vector to the executor
DryRun_Spawns(requests, argv) ==
    Stage("DryRunReturned",
          Handled(CommandResponse(TRUE, Some(argv), None, None, None, None, None),
                  requests, <<argv>>, <<>>, 0))

\* runner.py:412-413: the dry run returns the vector and runs nothing
DryRun(requests, argv) ==
    Stage("DryRunReturned",
          Handled(CommandResponse(TRUE, Some(argv), None, None, None, None, None),
                  requests, <<>>, <<>>, 0))

\* faulty variant: a request that build_argv rejects gives its timestamp back
AfterBuild_Refund(req, requests, built, child) ==
    Stage("ArgvBuilt",
          IF ~built.ok
             THEN Handled(BuildFailure(built), SubSeq(requests, 1, Len(requests) - 1),
                          <<>>, <<>>, 0)
          ELSE IF req.dry_run THEN DryRun(requests, built.val)
          ELSE Executed(req, requests, built.val,
                        execute_command(built.val, req.timeout_sec, child),
                        Elapsed(child, req.timeout_sec)))

\* runner.py:407-440: what follows the call of build_argv
AfterBuild(req, requests, built, child) ==
    Stage("ArgvBuilt",
          IF ~built.ok THEN Handled(BuildFailure(built), requests, <<>>, <<>>, 0)
          ELSE IF req.dry_run THEN DryRun(requests, built.val)
          ELSE Executed(req, requests, built.val,
                        execute_command(built.val, req.timeout_sec, child),
                        Elapsed(child, req.timeout_sec)))

\* faulty variant: check_rate_limit() is called after build_argv, so a request
\* over the limit still goes through the allow-list and the path check
AfterRateCheck_BuildFirst(req, rate, child) ==
    IF ~rate.result.ok
       THEN Stage("ArgvBuilt",
                  Stage("RateChecked",
                        Handled(HttpError(429, rate.result.detail), rate.requests,
                                <<>>, <<>>, 0)))
       ELSE Stage("RateChecked",
                  AfterBuild(req, rate.requests,
                             build_argv(req.cmd_id, req.args, ALLOWLIST), child))

\* runner.py:402-405: what follows the call of check_rate_limit
AfterRateCheck(req, rate, child) ==
    Stage("RateChecked",
          IF ~rate.result.ok
             THEN Handled(HttpError(429, rate.result.detail), rate.requests,
                          <<>>, <<>>, 0)
             ELSE AfterBuild(req, rate.requests,
                             build_argv(req.cmd_id, req.args, ALLOWLIST), child))

\* runner.py:398-440: the whole handler
run_command(req, requests, t, child) ==
    AfterRateCheck(req, check_rate_limit(requests, t), child)

(***************************************************************************)
(* The MOVA Engine proxies                                                 *)
(***************************************************************************)
\* an exception that is not an HTTPException
Raise(exc, msg) == [ok |-> FALSE, exc |-> exc, status |-> 0, detail |-> msg]

\* runner.py:74-80  the fields CommandResponse declares
DeclaredFields ==
    {"ok", "argv", "returncode", "stdout_tail", "stderr_tail", "duration_ms", "error"}

\* pydantic keeps the keyword arguments that are declared fields and ignores
\* the others
Keep(kwargs) == [f \in DOMAIN kwargs \cap DeclaredFields |-> kwargs[f]]

\* CommandResponse(ok=True, result=result, duration_ms=0)
ProxySuccess(result) ==
    [status |-> 200, detail |-> None,
     body |-> Some(Keep([ok |-> TRUE, result |-> Some(result), duration_ms |-> Some(0)])
                   @@ [f \in DeclaredFields |-> None])]

\* CommandResponse(ok=False, error=f"... error: {str(e)}")
ProxyFailure(words, msg) ==
    CommandResponse(FALSE, None, None, None, None, None, Some(<<words>> \o msg))

\* What the remote engine does with a call is the environment's choice: it
\* may be unreachable, answer 200 with a JSON document, answer 200 with a
\* body that is not JSON, or answer another status.
\* The call made and the outcome of the function that made it:
Forwarded(method, url, reply, fail_status, fail_words) ==
    [calls   |-> << [method |-> method, url |-> url, reply |-> reply] >>,
     outcome |-> IF ~reply.reachable
                    THEN Raise("ConnectError", <<"All connection attempts failed">>)
                 ELSE IF reply.status # 200
                    THEN RaiseHTTP(fail_status, <<fail_words>> \o reply.text)
                 ELSE IF reply.json = None
                    THEN Raise("JSONDecodeError", <<"Expecting value">>)
                 ELSE Return(reply.json[1])]

\* no call was made
NotForwarded(outcome) == [calls |-> <<>>, outcome |-> outcome]

\* runner.py:301-305 / 322-326: the envelope file is read before the call;
\* file is what the file system holds at envelope_path
ReadEnvelope(envelope_path, file) ==
    IF file = "missing"
       THEN Raise("FileNotFoundError", <<"Envelope not found: ">> \o PathStr(envelope_path))
    ELSE IF file = "garbled"
       THEN Raise("JSONDecodeError", <<"Expecting value">>)
    ELSE Return(file)

validate_envelope(envelope_path, file, reply) ==
    IF ~ReadEnvelope(envelope_path, file).ok
       THEN NotForwarded(ReadEnvelope(envelope_path, file))
       ELSE Forwarded("POST", <<"/v1/validate">>, reply, 400, "Envelope validation failed: ")

execute_envelope(envelope_path, file, reply) ==
    IF ~ReadEnvelope(envelope_path, file).ok
       THEN NotForwarded(ReadEnvelope(envelope_path, file))
       ELSE Forwarded("POST", <<"/v1/execute">>, reply, 400, "Envelope execution failed: ")

get_run_logs(run_id, reply) ==
    Forwarded("GET", <<"/v1/runs/">> \o run_id \o <<"/logs">>, reply, 404,
              "Run not found or logs unavailable: ")

get_introspection(reply) ==
    Forwarded("GET", <<"/v1/introspect">>, reply, 500, "Introspection failed: ")

\* What a proxy handler leaves: the answer, the rate window, the calls made
Proxied(resp, requests, calls) ==
    [response |-> resp, requests |-> requests, remote_calls |-> calls]

\* except HTTPException: raise / except Exception: ok=False with the words
\* of the endpoint
ProxyAnswer(outcome, words) ==
    IF outcome.ok THEN ProxySuccess(outcome.val)
    ELSE IF outcome.exc = "HTTPException" THEN HttpError(outcome.status, outcome.detail)
    ELSE ProxyFailure(words, outcome.detail)

AfterRemote(requests, called, words) ==
    Proxied(ProxyAnswer(called.outcome, words), requests, called.calls)

ValidateCmd == <<"v", "a", "l", "i", "d", "a", "t", "e">>
RunCmd      == <<"r", "u", "n">>

\* runner.py:463-471: the path check, then the remote call
ValidateChecked(requests, checked, file, reply) ==
    IF ~checked.ok
       THEN Proxied(ProxyFailure("Validation error: ", checked.detail), requests, <<>>)
       ELSE AfterRemote(requests, validate_envelope(checked.val, file, reply),
                        "Validation error: ")

\* runner.py:450-461: what follows check_rate_limit
ValidateAfterRate(req, rate, file, reply) ==
    IF ~rate.result.ok
       THEN Proxied(HttpError(429, rate.result.detail), rate.requests, <<>>)
    ELSE IF req.cmd_id # ValidateCmd
       THEN Proxied(HttpError(400, <<"Only 'validate' command supported">>),
                    rate.requests, <<>>)
    ELSE IF "file" \notin DOMAIN req.args
       THEN Proxied(HttpError(400, <<"Missing required 'file' argument">>),
                    rate.requests, <<>>)
    ELSE ValidateChecked(rate.requests, sanitize_path(req.args["file"], PROJECT_ROOT),
                         file, reply)

\* runner.py:446-476
validate_endpoint(req, requests, t, file, reply) ==
    ValidateAfterRate(req, check_rate_limit(requests, t), file, reply)

\* runner.py:494-502
ExecuteChecked(requests, checked, file, reply) ==
    IF ~checked.ok
       THEN Proxied(ProxyFailure("Execution error: ", checked.detail), requests, <<>>)
       ELSE AfterRemote(requests, execute_envelope(checked.val, file, reply),
                        "Execution error: ")

\* runner.py:483-492
ExecuteAfterRate(req, rate, file, reply) ==
    IF ~rate.result.ok
       THEN Proxied(HttpError(429, rate.result.detail), rate.requests, <<>>)
    ELSE IF req.cmd_id # RunCmd
       THEN Proxied(HttpError(400, <<"Only 'run' command supported">>),
                    rate.requests, <<>>)
    ELSE IF "file" \notin DOMAIN req.args
       THEN Proxied(HttpError(400, <<"Missing required 'file' argument">>),
                    rate.requests, <<>>)
    ELSE ExecuteChecked(rate.requests, sanitize_path(req.args["file"], PROJECT_ROOT),
                        file, reply)

\* runner.py:479-507
execute_endpoint(req, requests, t, file, reply) ==
    ExecuteAfterRate(req, check_rate_limit(requests, t), file, reply)

\* runner.py:514-523
LogsAfterRate(run_id, rate, reply) ==
    IF ~rate.result.ok
       THEN Proxied(HttpError(429, rate.result.detail), rate.requests, <<>>)
    ELSE IF ~IdentifierOk(run_id)
       THEN Proxied(HttpError(400, <<"Invalid run_id format">>), rate.requests, <<>>)
    ELSE AfterRemote(rate.requests, get_run_logs(run_id, reply), "Logs error: ")

\* runner.py:510-528
logs_endpoint(run_id, requests, t, reply) ==
    LogsAfterRate(run_id, check_rate_limit(requests, t), reply)

\* faulty variant: /introspect does not share the rate window
IntrospectAfterRate_Unlimited(rate, reply) ==
    AfterRemote(rate.requests, get_introspection(reply), "Introspection error: ")

\* runner.py:535-540
IntrospectAfterRate(rate, reply) ==
    IF ~rate.result.ok
       THEN Proxied(HttpError(429, rate.result.detail), rate.requests, <<>>)
       ELSE AfterRemote(rate.requests, get_introspection(reply), "Introspection error: ")

\* runner.py:531-545
introspect_endpoint(requests, t, reply) ==
    IntrospectAfterRate(check_rate_limit(requests, t), reply)

\* faulty variant: the health check reports the service as unavailable
health_Unavailable(t) ==
    [status |-> 503, detail |-> None,
     body |-> Some([status |-> "unhealthy", timestamp |-> t])]

\* runner.py:392-395
health(t) ==
    [status |-> 200, detail |-> None,
     body |-> Some([status |-> "healthy", timestamp |-> t])]

(***************************************************************************)
(* The web interface (web_interface.py)                                    *)
(***************************************************************************)
\* web_interface.py:83-86: JSONResponse(content=result), or 404 with the
\* text of whatever exception was raised
WebAnswer(outcome) ==
    IF outcome.ok THEN [status |-> 200, detail |-> None, body |-> Some(outcome.val)]
    ELSE HttpError(404, outcome.detail)

\* web_interface.py:79-86: the identifier goes to get_run_logs as it came
api_logs(run_id, reply) ==
    [response     |-> WebAnswer(get_run_logs(run_id, reply).outcome),
     remote_calls |-> get_run_logs(run_id, reply).calls]

(***************************************************************************)
(* Inputs                                                                  *)
(***************************************************************************)
\* a string of n characters
Long(n) == [i \in 1..n |-> "x"]

\* no value, or one of vals, under the name
Opt(name, vals) == {<<>>} \cup {name :> v : v \in vals}

\* every mapping from a subset of the placeholder names to values
ArgsOver(fileVals, runIdVals, msgVals) ==
    {f @@ r @@ m : f \in Opt("file", fileVals), r \in Opt("run_id", runIdVals),
                   m \in Opt("msg", msgVals)}

NonStrings == {IntVal(5), BoolVal(TRUE), ListVal(<<".", ".", "/", "a">>), DictVal(<<"/", "a">>)}

\* command identifiers: the allow-listed ones, one that is well-formed but
\* not allow-listed, one that is not well-formed
UnknownCmd == <<"r", "m">>
CmdIds == DOMAIN ALLOWLIST \cup {UnknownCmd}

\* Paths, identifiers and free strings for direct calls of build_argv
\* ("U+0060" stands for the backquote character)
PathChars == {"a", ".", "/", ":", "C", "l", "s"}
IdChars   == {"a", "_", " ", ";", "U+00E9"}
FileSamples ==
    {<<"a">>, <<"a", "/", "b">>, <<".", ".", "/", "a">>, <<"/", "e", "t", "c">>,
     <<"a", ".", ".", "b">>, <<"C", ":", "\\", "a">>, <<"l", "/", "a">>, <<"a", ";", "b">>}
IdSamples ==
    {<<"a", "-", "1">>, <<"-">>, <<"a", "&", "b">>, <<"a", "|", "b">>, <<"U+0060", "a", "U+0060">>,
     <<"$", "a">>, <<"a", "\n">>, <<"a", "\t", "b">>}
MsgSamples == {<<"h", "i">>, <<"a", "\n", "b">>, Long(MAX_ARG_LEN), Long(MAX_ARG_LEN + 1)}

BuildCalls ==
    {[op |-> "build_argv", cmd_id |-> c, args |-> a] :
        c \in CmdIds,
        a \in ArgsOver({StrVal(x) : x \in FileSamples} \cup NonStrings,
                       {StrVal(x) : x \in StringsUpTo(IdChars, MaxIdLen) \cup IdSamples}
                           \cup {IntVal(5)},
                       {StrVal(x) : x \in MsgSamples} \cup {IntVal(5)})}

SanitizeCalls ==
    {[op |-> "sanitize_path", path |-> v] :
        v \in {StrVal(x) : x \in StringsUpTo(PathChars, MaxPathLen)} \cup NonStrings}

\* /run requests
RunRequests ==
    {[endpoint |-> "/run", cmd_id |-> c, args |-> a, dry_run |-> d, timeout_sec |-> 60] :
        c \in CmdIds \cup {<<"r", "m", ";">>},
        a \in ArgsOver({StrVal(<<"a">>), StrVal(<<".", ".", "/", "a">>),
                        StrVal(<<"/", "e", "t", "c">>), IntVal(5)},
                       {StrVal(<<"a", "_", "1">>), StrVal(<<"a", " ", "b">>)},
                       {StrVal(<<"h", "i">>)})
              \cup {"msg" :> StrVal(Long(MAX_ARG_LEN + 1)),
                    "msg" :> StrVal(<<"a", "\n", "b">>)},
        d \in BOOLEAN}

\* what a child process may do
Children ==
    {[spawns |-> FALSE, error |-> "FileNotFoundError", run_secs |-> 0, returncode |-> 0,
      stdout |-> <<>>, stderr |-> <<>>],
     [spawns |-> TRUE, error |-> "", run_secs |-> 0, returncode |-> 0,
      stdout |-> <<"o", "k">>, stderr |-> <<>>],
     [spawns |-> TRUE, error |-> "", run_secs |-> 0, returncode |-> 1,
      stdout |-> <<>>, stderr |-> <<"n", "o">>],
     [spawns |-> TRUE, error |-> "", run_secs |-> 600, returncode |-> 0,
      stdout |-> <<>>, stderr |-> <<>>]}

\* a stream of n characters whose content tells the positions apart
Stream(n) == [i \in 1..n |-> ToString(i % 10)]

\* streams that are empty, short, and around the output limit
Streams ==
    {Stream(n) : n \in {0, 2} \cup ((OUTPUT_LIMIT - MaxSlack)..(OUTPUT_LIMIT + MaxSlack))}

\* children for direct calls of execute_command: the spawn fails, or the
\* child runs for some seconds, prints and exits
ExecChildren ==
    {[spawns |-> FALSE, error |-> e, run_secs |-> 0, returncode |-> 0,
      stdout |-> <<>>, stderr |-> <<>>] :
        e \in {"FileNotFoundError", "PermissionError", "OSError"}}
    \cup {[spawns |-> TRUE, error |-> "", run_secs |-> d, returncode |-> rc,
           stdout |-> out, stderr |-> err] :
             d \in {0, 1, 10}, rc \in {0, 1}, out \in Streams, err \in Streams}

ExecCalls ==
    {[op |-> "execute_command", argv |-> a, timeout_sec |-> t, child |-> c] :
        a \in {<< <<"e", "c", "h", "o">>, <<"h", "i">> >>}, t \in {1, 30}, c \in ExecChildren}

\* what the file system holds at the path of the envelope
EnvelopeFiles == {"missing", "garbled", "valid"}

\* what the remote engine may do with a call
Replies ==
    {[reachable |-> FALSE, status |-> 0, json |-> None, text |-> <<>>],
     [reachable |-> TRUE, status |-> 200, json |-> Some("document"), text |-> <<"{", "}">>],
     [reachable |-> TRUE, status |-> 200, json |-> None, text |-> <<"<", ">">>],
     [reachable |-> TRUE, status |-> 500, json |-> None, text |-> <<"b", "o", "o", "m">>]}

\* /validate and /execute requests
EnvelopeRequests ==
    {[endpoint |-> e, cmd_id |-> c, args |-> a, dry_run |-> FALSE, timeout_sec |-> 30] :
        e \in {"/validate", "/execute"},
        c \in {ValidateCmd, RunCmd, <<"r", "m", ";">>, <<"-">>},
        a \in Opt("file", {StrVal(<<"a">>), StrVal(<<".", ".", "/", "a">>), IntVal(5)})}

\* GET /logs/{run_id}
LogsRequests ==
    {[endpoint |-> "/logs", run_id |-> r] :
        r \in {<<"a", "_", "1">>, <<"a", " ", "b">>, <<"-">>, <<"U+00E9">>}}

\* GET /api/logs/{run_id} of the web interface
WebRequests ==
    {[endpoint |-> "/api/logs", run_id |-> r] :
        r \in {<<"a", "_", "1">>, <<"a", " ", "b">>}}

\* GET /introspect and GET /health
PlainRequests == {[endpoint |-> "/introspect"], [endpoint |-> "/health"]}

Requests ==
    RunRequests \cup EnvelopeRequests \cup LogsRequests \cup WebRequests \cup PlainRequests

\* the endpoints whose body is a CommandRequest
BodyEndpoints == {"/run", "/validate", "/execute"}

(***************************************************************************)
(* The service: requests arrive, are handled one at a time, are answered   *)
(***************************************************************************)
Init ==
    /\ now = 0
    /\ rate_limit_store = <<>>
    /\ history = <<>>
    /\ request = None
    /\ response = None
    /\ spawned = <<>>
    /\ log_lines = <<>>
    /\ remote_calls = <<>>
    /\ stages = <<>>
    /\ tasks = <<>>
    /\ running = None

\* the clock advances by d seconds
Tick(d) ==
    /\ now + d <= MaxTime
    /\ now' = now + d
    /\ UNCHANGED <<rate_limit_store, history, request, response, spawned, log_lines, remote_calls, stages, tasks, running>>

\* a request arrives
Receive(req) ==
    /\ request = None
    /\ request' = Some(req)
    /\ response' = None
    /\ spawned' = <<>>
    /\ log_lines' = <<>>
    /\ remote_calls' = <<>>
    /\ stages' = IF req.endpoint = "/run" THEN <<"Received">> ELSE <<>>
    /\ UNCHANGED <<now, rate_limit_store, history, tasks, running>>

\* FastAPI rejects a request that fails the CommandRequest validators
\* before the handler is called
RejectShape ==
    /\ request # None /\ response = None
    /\ request[1].endpoint \in BodyEndpoints
    /\ ~ShapeOk(request[1])
    /\ response' = Some([status |-> 422, detail |-> Some(<<"validation error">>),
                         body |-> None])
    /\ stages' = IF stages = <<>> THEN <<>> ELSE Append(stages, "Responded")
    /\ UNCHANGED <<now, rate_limit_store, history, request, spawned, log_lines,
                   remote_calls, tasks, running>>

\* POST /run
RunCommand ==
    /\ request # None /\ response = None
    /\ request[1].endpoint = "/run"
    /\ ShapeOk(request[1])
    /\ \E child \in Children :
        \E out \in {run_command(request[1], rate_limit_store, now, child)} :
          /\ now + out.secs <= MaxTime
          /\ response' = Some(out.response)
          /\ rate_limit_store' = out.requests
          /\ spawned' = out.spawned
          /\ log_lines' = out.log_lines
          /\ now' = now + out.secs
          /\ stages' = stages \o out.stages \o <<"Responded">>
    /\ UNCHANGED <<history, request, remote_calls, tasks, running>>

\* POST /validate
ValidateEndpoint ==
    /\ request # None /\ response = None
    /\ request[1].endpoint = "/validate"
    /\ ShapeOk(request[1])
    /\ \E file \in EnvelopeFiles, reply \in Replies :
        \E out \in {validate_endpoint(request[1], rate_limit_store, now, file, reply)} :
          /\ response' = Some(out.response)
          /\ rate_limit_store' = out.requests
          /\ remote_calls' = out.remote_calls
    /\ UNCHANGED <<now, history, request, spawned, log_lines, stages, tasks, running>>

\* POST /execute
ExecuteEndpoint ==
    /\ request # None /\ response = None
    /\ request[1].endpoint = "/execute"
    /\ ShapeOk(request[1])
    /\ \E file \in EnvelopeFiles, reply \in Replies :
        \E out \in {execute_endpoint(request[1], rate_limit_store, now, file, reply)} :
          /\ response' = Some(out.response)
          /\ rate_limit_store' = out.requests
          /\ remote_calls' = out.remote_calls
    /\ UNCHANGED <<now, history, request, spawned, log_lines, stages, tasks, running>>

\* GET /logs/{run_id}
LogsEndpoint ==
    /\ request # None /\ response = None
    /\ request[1].endpoint = "/logs"
    /\ \E reply \in Replies :
        \E out \in {logs_endpoint(request[1].run_id, rate_limit_store, now, reply)} :
          /\ response' = Some(out.response)
          /\ rate_limit_store' = out.requests
          /\ remote_calls' = out.remote_calls
    /\ UNCHANGED <<now, history, request, spawned, log_lines, stages, tasks, running>>

\* GET /introspect
IntrospectEndpoint ==
    /\ request # None /\ response = None
    /\ request[1].endpoint = "/introspect"
    /\ \E reply \in Replies :
        \E out \in {introspect_endpoint(rate_limit_store, now, reply)} :
          /\ response' = Some(out.response)
          /\ rate_limit_store' = out.requests
          /\ remote_calls' = out.remote_calls
    /\ UNCHANGED <<now, history, request, spawned, log_lines, stages, tasks, running>>

\* GET /api/logs/{run_id} of the web interface
ApiLogs ==
    /\ request # None /\ response = None
    /\ request[1].endpoint = "/api/logs"
    /\ \E reply \in Replies :
        \E out \in {api_logs(request[1].run_id, reply)} :
          /\ response' = Some(out.response)
          /\ remote_calls' = out.remote_calls
    /\ UNCHANGED <<now, rate_limit_store, history, request, spawned, log_lines, stages, tasks, running>>

\* GET /health
Health ==
    /\ request # None /\ response = None
    /\ request[1].endpoint = "/health"
    /\ response' = Some(health(now))
    /\ UNCHANGED <<now, rate_limit_store, history, request, spawned, log_lines,
                   remote_calls, stages, tasks, running>>

\* the answer has been sent
Respond ==
    /\ response # None
    /\ request' = None
    /\ response' = None
    /\ spawned' = <<>>
    /\ log_lines' = <<>>
    /\ remote_calls' = <<>>
    /\ stages' = <<>>
    /\ UNCHANGED <<now, rate_limit_store, history, tasks, running>>

Next ==
    \/ Tick(WINDOW_SECONDS)
    \/ \E req \in Requests : Receive(req)
    \/ RejectShape
    \/ RunCommand
    \/ ValidateEndpoint
    \/ ExecuteEndpoint
    \/ LogsEndpoint
    \/ IntrospectEndpoint
    \/ ApiLogs
    \/ Health
    \/ Respond

Spec == Init /\ [][Next]_vars

(***************************************************************************)
(* Direct calls of sanitize_path                                           *)
(***************************************************************************)
InitPath ==
    /\ now = 0
    /\ rate_limit_store = <<>>
    /\ history = <<>>
    /\ request \in {Some(c) : c \in SanitizeCalls}
    /\ response = None
    /\ spawned = <<>>
    /\ log_lines = <<>>
    /\ remote_calls = <<>>
    /\ stages = <<>>
    /\ tasks = <<>>
    /\ running = None

SanitizeCall ==
    /\ request # None /\ response = None
    /\ request[1].op = "sanitize_path"
    /\ response' = Some(sanitize_path(request[1].path, PROJECT_ROOT))
    /\ UNCHANGED <<now, rate_limit_store, history, request, spawned, log_lines, remote_calls, stages, tasks, running>>

NextPath == SanitizeCall

SpecPath == InitPath /\ [][NextPath]_vars

(***************************************************************************)
(* Direct calls of build_argv                                              *)
(***************************************************************************)
InitArgv ==
    /\ now = 0
    /\ rate_limit_store = <<>>
    /\ history = <<>>
    /\ request \in {Some(c) : c \in BuildCalls}
    /\ response = None
    /\ spawned = <<>>
    /\ log_lines = <<>>
    /\ remote_calls = <<>>
    /\ stages = <<>>
    /\ tasks = <<>>
    /\ running = None

\* the dicts the caller holds, as the previous call left them
HeldArgs == IF history = <<>> THEN request[1].args ELSE history[Len(history)].args
HeldAllowlist == IF history = <<>> THEN ALLOWLIST ELSE history[Len(history)].allowlist

\* what a call returns or raises, and the two dicts after it
BuildReturn(cmd_id, args, allowlist) ==
    [result |-> build_argv(cmd_id, args, allowlist),
     args |-> ArgsAfterCall(cmd_id, args, allowlist),
     allowlist |-> AllowlistAfterCall(cmd_id, args, allowlist)]

\* the caller calls build_argv, again with the same objects
BuildCall ==
    /\ request # None /\ Len(history) < MaxBuilds
    /\ request[1].op = "build_argv"
    /\ \E out \in {BuildReturn(request[1].cmd_id, HeldArgs, HeldAllowlist)} :
          /\ response' = Some(out.result)
          /\ history' = Append(history, out)
    /\ UNCHANGED <<now, rate_limit_store, request, spawned, log_lines, remote_calls, stages, tasks, running>>

NextArgv == BuildCall

SpecArgv == InitArgv /\ [][NextArgv]_vars

(***************************************************************************)
(* Direct calls of check_rate_limit                                        *)
(***************************************************************************)
RateCall ==
    /\ Len(history) < MaxCalls
    /\ \E rate \in {check_rate_limit(rate_limit_store, now)} :
          /\ rate_limit_store' = rate.requests
          /\ response' = Some(rate.result)
          /\ history' = Append(history, [t |-> now, ok |-> rate.result.ok])
    /\ UNCHANGED <<now, request, spawned, log_lines, remote_calls, stages, tasks, running>>

NextRate ==
    \/ Tick(TickStep)
    \/ RateCall

SpecRate == Init /\ [][NextRate]_vars

(***************************************************************************)
(* Direct calls of execute_command                                         *)
(***************************************************************************)
InitExec ==
    /\ now = 0
    /\ rate_limit_store = <<>>
    /\ history = <<>>
    /\ request \in {Some(c) : c \in ExecCalls}
    /\ response = None
    /\ spawned = <<>>
    /\ log_lines = <<>>
    /\ remote_calls = <<>>
    /\ stages = <<>>
    /\ tasks = <<>>
    /\ running = None

ExecCall ==
    /\ request # None /\ response = None
    /\ request[1].op = "execute_command"
    /\ response' = Some(execute_command(request[1].argv, request[1].timeout_sec,
                                        request[1].child))
    /\ spawned' = <<request[1].argv>>
    /\ now' = now + Elapsed(request[1].child, request[1].timeout_sec)
    /\ UNCHANGED <<rate_limit_store, history, request, log_lines, remote_calls, stages, tasks, running>>

NextExec == ExecCall

SpecExec == InitExec /\ [][NextExec]_vars

(***************************************************************************)
(* A client that calls the five rate-limited endpoints in turn             *)
(***************************************************************************)
RateLimitedEndpoints == <<"/run", "/validate", "/execute", "/logs", "/introspect">>

\* the endpoint of the k-th call of the client that began at the given offset
Turn(offset, k) == RateLimitedEndpoints[((offset + k) % Len(RateLimitedEndpoints)) + 1]

\* a well-formed request for the endpoint
RequestFor(e) ==
    CASE e = "/run" ->
           [endpoint |-> e, cmd_id |-> <<"b", "u", "i", "l", "d">>, args |-> <<>>,
            dry_run |-> FALSE, timeout_sec |-> 60]
      [] e = "/validate" ->
           [endpoint |-> e, cmd_id |-> ValidateCmd, args |-> "file" :> StrVal(<<"a">>),
            dry_run |-> FALSE, timeout_sec |-> 30]
      [] e = "/execute" ->
           [endpoint |-> e, cmd_id |-> RunCmd, args |-> "file" :> StrVal(<<"a">>),
            dry_run |-> FALSE, timeout_sec |-> 30]
      [] e = "/logs" -> [endpoint |-> e, run_id |-> <<"a", "_", "1">>]
      [] e = "/introspect" -> [endpoint |-> e]

\* the answer, the rate window and the seconds taken
AnswerOf(out, secs) == [response |-> out.response, requests |-> out.requests, secs |-> secs]

\* the handler of the endpoint, applied to the request
Serve(req, requests, t, child, file, reply) ==
    CASE req.endpoint = "/run" ->
           AnswerOf(run_command(req, requests, t, child), Elapsed(child, req.timeout_sec))
      [] req.endpoint = "/validate" ->
           AnswerOf(validate_endpoint(req, requests, t, file, reply), 0)
      [] req.endpoint = "/execute" ->
           AnswerOf(execute_endpoint(req, requests, t, file, reply), 0)
      [] req.endpoint = "/logs" ->
           AnswerOf(logs_endpoint(req.run_id, requests, t, reply), 0)
      [] req.endpoint = "/introspect" ->
           AnswerOf(introspect_endpoint(requests, t, reply), 0)

\* what surrounds a call: the child process of /run, the envelope file and
\* the remote engine's reply of a proxy
Surroundings(e) ==
    IF e = "/run"
       THEN {[child |-> c, file |-> "valid", reply |-> CHOOSE r \in Replies : r.json # None] :
                c \in {c \in Children : c.returncode = 0}}
       ELSE {[child |-> CHOOSE c \in Children : ~c.spawns, file |-> "valid", reply |-> r] :
                r \in {r \in Replies : r.status # 200 \/ r.json # None}}

InitMix ==
    /\ now = 0
    /\ rate_limit_store = <<>>
    /\ history = <<>>
    /\ request \in {Some([op |-> "client", offset |-> k]) :
                        k \in 0..(Len(RateLimitedEndpoints) - 1)}
    /\ response = None
    /\ spawned = <<>>
    /\ log_lines = <<>>
    /\ remote_calls = <<>>
    /\ stages = <<>>
    /\ tasks = <<>>
    /\ running = None

\* the client's next call is received, handled and answered
ClientCall ==
    /\ Len(history) < MaxCalls
    /\ \E env \in Surroundings(Turn(request[1].offset, Len(history))) :
        \E out \in {Serve(RequestFor(Turn(request[1].offset, Len(history))),
                          rate_limit_store, now, env.child, env.file, env.reply)} :
          /\ now + out.secs <= MaxTime
          /\ now' = now + out.secs
          /\ rate_limit_store' = out.requests
          /\ response' = Some(out.response)
          /\ history' = Append(history,
                               [t |-> now, ok |-> out.response.status # 429,
                                endpoint |-> Turn(request[1].offset, Len(history))])
    /\ UNCHANGED <<request, spawned, log_lines, remote_calls, stages, tasks, running>>

NextMix ==
    \/ Tick(TickStep)
    \/ ClientCall

SpecMix == InitMix /\ [][NextMix]_vars

(***************************************************************************)
(* The event loop: uvicorn serves every request as a coroutine of one      *)
(* asyncio loop (runner.py:596, one worker). A coroutine keeps the loop's  *)
(* thread from one await to the next; a call that is not awaited, blocking *)
(* or not, keeps it.                                                       *)
(***************************************************************************)
\* where a coroutine can be: not yet sent, waiting to be served, between
\* the check and the append of check_rate_limit, inside subprocess.run,
\* suspended in "await http_client.get", answered
IdleTask == [pc |-> "idle"]

\* faulty variant: check_rate_limit awaits between its check and its append
ReleasesLoop_InRateCheck(pc) == pc \in {"observed", "awaiting", "done"}

\* the thread is given back at an await (runner.py:538) and at the end of
\* the handler; check_rate_limit (96-112) and subprocess.run (201) have no
\* await
ReleasesLoop(pc) == pc \in {"awaiting", "done"}

\* who holds the thread after task i has moved to pc
Holder(i, pc) == IF ReleasesLoop(pc) THEN None ELSE Some(i)

\* the loop can run task i
CanRun(i) == running = None \/ running = Some(i)

LoopRequests ==
    {RequestFor("/run"), [RequestFor("/run") EXCEPT !.dry_run = TRUE],
     RequestFor("/introspect"), [endpoint |-> "/health"]}

\* the child processes and the remote replies of this section
LoopChildren == {c \in Children : c.spawns /\ c.returncode = 0}
LoopReplies == {r \in Replies : r.json # None \/ ~r.reachable}

Answered(task, resp) == [pc |-> "done", req |-> task.req, response |-> resp]

\* the service was started at time 0 and has accepted some requests since
InitLoop ==
    /\ now = 0
    /\ rate_limit_store \in {[k \in 1..n |-> 0] : n \in {0, RATE_LIMIT - 1, RATE_LIMIT}}
    /\ history = rate_limit_store
    /\ request = None
    /\ response = None
    /\ spawned = <<>>
    /\ log_lines = <<>>
    /\ remote_calls = <<>>
    /\ stages = <<>>
    /\ tasks = [i \in 1..MaxTasks |-> IdleTask]
    /\ running = None

\* a client sends a request; the loop has not read it yet
Send(i, req) ==
    /\ tasks[i].pc = "idle"
    /\ tasks' = [tasks EXCEPT ![i] = [pc |-> "sent", req |-> req]]
    /\ UNCHANGED <<now, rate_limit_store, history, request, response, spawned,
                   log_lines, remote_calls, stages, running>>

\* runner.py:98-110  the handler starts: check_rate_limit reads the clock,
\* prunes the window and raises 429 at capacity
Observe(i) ==
    /\ tasks[i].pc = "sent" /\ CanRun(i)
    /\ tasks[i].req.endpoint \in {"/run", "/introspect"}
    /\ rate_limit_store' = Prune(rate_limit_store, now)
    /\ \E pc \in {IF AtCapacity(Prune(rate_limit_store, now)) THEN "done" ELSE "observed"} :
          /\ tasks' = [tasks EXCEPT ![i] =
                 IF pc = "done"
                    THEN Answered(@, HttpError(429,
                             <<"Rate limit exceeded: 15 requests per minute">>))
                    ELSE [pc |-> pc, req |-> @.req, t |-> now]]
          /\ running' = Holder(i, pc)
    /\ UNCHANGED <<now, history, request, response, spawned, log_lines, remote_calls,
                   stages>>

\* where the handler is after the rate check: /run has built the vector and
\* answered, or sits in subprocess.run; /introspect awaits the remote engine
AfterAppend(req) ==
    IF req.endpoint = "/introspect" THEN "awaiting"
    ELSE IF ~build_argv(req.cmd_id, req.args, ALLOWLIST).ok \/ req.dry_run THEN "done"
    ELSE "child"

\* runner.py:112 and what the handler does up to its next stop
Record(i) ==
    /\ tasks[i].pc = "observed" /\ CanRun(i)
    /\ rate_limit_store' = Append(rate_limit_store, tasks[i].t)
    /\ history' = Append(history, tasks[i].t)
    /\ \E pc \in {AfterAppend(tasks[i].req)} :
          /\ tasks' = [tasks EXCEPT ![i] =
                 IF pc = "done"
                    THEN Answered(@, AfterBuild(@.req, rate_limit_store',
                                                build_argv(@.req.cmd_id, @.req.args,
                                                           ALLOWLIST),
                                                CHOOSE c \in LoopChildren : TRUE).response)
                    ELSE [@ EXCEPT !.pc = pc]]
          /\ running' = Holder(i, pc)
    /\ UNCHANGED <<now, request, response, spawned, log_lines, remote_calls, stages>>

\* runner.py:201-435  subprocess.run returns or times out; the handler logs
\* and answers
ChildExit(i) ==
    /\ tasks[i].pc = "child" /\ CanRun(i)
    /\ \E child \in LoopChildren :
          /\ now + Elapsed(child, tasks[i].req.timeout_sec) <= MaxTime
          /\ now' = now + Elapsed(child, tasks[i].req.timeout_sec)
          /\ tasks' = [tasks EXCEPT ![i] =
                 Answered(@, AfterBuild(@.req, rate_limit_store,
                                        build_argv(@.req.cmd_id, @.req.args, ALLOWLIST),
                                        child).response)]
    /\ running' = Holder(i, "done")
    /\ UNCHANGED <<rate_limit_store, history, request, response, spawned, log_lines,
                   remote_calls, stages>>

\* runner.py:359-366, 538-545  the remote engine has replied and the loop
\* resumes the coroutine
Resume(i) ==
    /\ tasks[i].pc = "awaiting" /\ CanRun(i)
    /\ \E reply \in LoopReplies :
          tasks' = [tasks EXCEPT ![i] =
              Answered(@, AfterRemote(rate_limit_store, get_introspection(reply),
                                      "Introspection error: ").response)]
    /\ running' = Holder(i, "done")
    /\ UNCHANGED <<now, rate_limit_store, history, request, response, spawned,
                   log_lines, remote_calls, stages>>

\* runner.py:392-395
ServeHealth(i) ==
    /\ tasks[i].pc = "sent" /\ CanRun(i)
    /\ tasks[i].req.endpoint = "/health"
    /\ tasks' = [tasks EXCEPT ![i] = Answered(@, health(now))]
    /\ running' = Holder(i, "done")
    /\ UNCHANGED <<now, rate_limit_store, history, request, response, spawned,
                   log_lines, remote_calls, stages>>

\* time passes while the loop is idle or a coroutine is suspended
LoopTick == running = None /\ Tick(TickStep)

NextLoop ==
    \/ LoopTick
    \/ \E i \in 1..MaxTasks, req \in LoopRequests : Send(i, req)
    \/ \E i \in 1..MaxTasks : Observe(i)
    \/ \E i \in 1..MaxTasks : Record(i)
    \/ \E i \in 1..MaxTasks : ChildExit(i)
    \/ \E i \in 1..MaxTasks : Resume(i)
    \/ \E i \in 1..MaxTasks : ServeHealth(i)

SpecLoop == InitLoop /\ [][NextLoop]_vars

(***************************************************************************)
(* Properties                                                              *)
(***************************************************************************)
\* a /run request has been answered
RunAnswered ==
    /\ request # None /\ response # None
    /\ request[1].endpoint = "/run"
    /\ ShapeOk(request[1])

\* a direct call has returned
Called(op) == request # None /\ response # None /\ request[1].op = op

\* the placeholders of a template, in template order
RECURSIVE Placeholders(_)
Placeholders(template) ==
    IF template = <<>> THEN <<>>
    ELSE (IF Head(template).kind = "dict" THEN Head(template).pairs ELSE <<>>)
         \o Placeholders(Tail(template))

\* the literals and placeholders of a template, in template order
RECURSIVE Units(_)
Units(template) ==
    IF template = <<>> THEN <<>>
    ELSE (IF Head(template).kind = "dict"
             THEN [k \in 1..Len(Head(template).pairs) |->
                      [lit |-> FALSE, tok |-> <<>>, pair |-> Head(template).pairs[k]]]
             ELSE << [lit |-> TRUE, tok |-> Head(template).tok,
                      pair |-> Pair("", <<>>)] >>)
         \o Units(Tail(template))

\* C1: for every cmd_id that is not a key of the allow-list, whatever the
\* args, build_argv fails with 403 "not in allow-list"; a /run request with
\* such a cmd_id that passed the rate check is answered 403 and spawns no
\* child process.
C1_UnknownCommandForbidden ==
    (RunAnswered /\ request[1].cmd_id \notin DOMAIN ALLOWLIST
                 /\ response[1].status # 429) =>
        /\ response[1].status = 403
        /\ response[1].detail =
              Some(<<"Command '">> \o request[1].cmd_id \o <<"' not in allow-list">>)
        /\ spawned = <<>>
        /\ log_lines = <<>>

C1_Witness ==
    /\ RunAnswered
    /\ request[1].cmd_id = UnknownCmd
    /\ DOMAIN request[1].args = {"file", "run_id", "msg"}
    /\ ~request[1].dry_run
    /\ response[1].status = 403

\* C2: every argv element emitted for a placeholder of type file is the
\* result of sanitize_path on the caller's value, whatever the value is
\* (string, number, boolean, list, mapping).
C2_FileValuesSanitized ==
    (Called("build_argv") /\ request[1].cmd_id \in DOMAIN ALLOWLIST /\ response[1].ok) =>
        LET template == ALLOWLIST[request[1].cmd_id]
            args     == request[1].args
        IN  \A i \in 1..Len(template) :
                (/\ template[i].kind = "dict"
                 /\ Get(template[i].pairs[1].config, "type", "None") = "file"
                 /\ \A j \in 1..(i - 1) : template[j].kind = "str"
                 /\ template[i].pairs[1].name \in DOMAIN args) =>
                    LET checked == sanitize_path(args[template[i].pairs[1].name],
                                                 PROJECT_ROOT)
                    IN  checked.ok /\ response[1].val[i] = PathStr(checked.val)

\* the path begins with a drive letter, as in C:
HasDriveLetter(s) == Len(s) >= 2 /\ s[1] \in AsciiLetters /\ s[2] = ":"

\* the path has a part equal to ..
HasParentPart(s) ==
    \E k \in 1..Len(Components(s)) : Components(s)[k] = <<".", ".">>

\* C3: sanitize_path fails for every path that contains a parent-directory
\* segment or begins with a root anchor (a leading / or a drive letter).
C3_TraversalRejected ==
    (Called("sanitize_path") /\ request[1].path.t = "str"
       /\ (\/ HasParentPart(request[1].path.v)
           \/ StartsWith(request[1].path.v, <<"/">>)
           \/ HasDriveLetter(request[1].path.v))) =>
        ~response[1].ok

\* the path, joined to the root and resolved, is below the root
StrictlyInsideRoot(s) ==
    LET resolved == resolve(JoinPath(PROJECT_ROOT, s)) IN
    /\ Len(resolved) > Len(PROJECT_ROOT)
    /\ SubSeq(resolved, 1, Len(PROJECT_ROOT)) = PROJECT_ROOT

\* C4: every relative path with no part equal to .., with no root anchor
\* and lying strictly within the project root is accepted, and the result
\* is the root joined with the path.
C4_InsidePathsAccepted ==
    (Called("sanitize_path") /\ request[1].path.t = "str"
       /\ ~HasParentPart(request[1].path.v)
       /\ ~StartsWith(request[1].path.v, <<"/">>)
       /\ ~HasDriveLetter(request[1].path.v)
       /\ StrictlyInsideRoot(request[1].path.v)) =>
        /\ response[1].ok
        /\ response[1].val = PROJECT_ROOT \o Components(request[1].path.v)
        /\ StartsWith(PathStr(response[1].val), PathStr(PROJECT_ROOT))

\* the value matches ^[A-Za-z0-9_-]+$
MatchesIdentifier(s) ==
    Len(s) > 0 /\ \A i \in 1..Len(s) : s[i] \in AsciiAlnumChars \cup {"_", "-"}

LogsCmd == <<"l", "o", "g", "s">>

\* C5: for a placeholder of type run_id a string value is appended to argv
\* if and only if it matches ^[A-Za-z0-9_-]+$; every other string value
\* fails with 400 "Invalid run_id format".
C5_IdentifierIffRegex ==
    (Called("build_argv") /\ request[1].cmd_id = LogsCmd
       /\ "run_id" \in DOMAIN request[1].args
       /\ request[1].args["run_id"].t = "str") =>
        LET value == request[1].args["run_id"].v IN
        IF MatchesIdentifier(value)
           THEN response[1].ok /\ response[1].val[3] = value
           ELSE response[1] = RaiseHTTP(400, <<"Invalid run_id format: ">> \o value)

\* the placeholder is required: "required" is true or not given
DeclaredRequired(config) == "required" \notin DOMAIN config \/ config["required"]

\* C6: a placeholder without a value makes build_argv fail with 400
\* "Missing required argument" when it is required (the default), and
\* contributes no token when it is declared not required.
C6_MissingArgument ==
    (Called("build_argv") /\ request[1].cmd_id \in DOMAIN ALLOWLIST) =>
        LET template == ALLOWLIST[request[1].cmd_id]
            args     == request[1].args
            slots    == Placeholders(template)
            absent(k) == slots[k].name \notin DOMAIN args
            literals == Cardinality({i \in 1..Len(template) : template[i].kind = "str"})
            present  == Cardinality({k \in 1..Len(slots) : ~absent(k)})
        IN  /\ \A k \in 1..Len(slots) :
                  (absent(k) /\ DeclaredRequired(slots[k].config)) =>
                      /\ ~response[1].ok
                      /\ (\A j \in 1..(k - 1) :
                             absent(j) /\ ~DeclaredRequired(slots[j].config)) =>
                             response[1] = RaiseHTTP(400, <<"Missing required argument: ",
                                                           slots[k].name>>)
            /\ response[1].ok => Len(response[1].val) = literals + present

\* the optional file placeholder is passed over, the run_id placeholder,
\* required by default, is missed
C6_Witness ==
    /\ Called("build_argv")
    /\ request[1].cmd_id = <<"r", "u", "n">>
    /\ DOMAIN request[1].args = {"msg"}
    /\ response[1] = RaiseHTTP(400, <<"Missing required argument: ", "run_id">>)

\* C7: when build_argv succeeds its output is the template read left to
\* right: a literal appears verbatim, a placeholder with a value gives one
\* element at its place, an absent optional placeholder gives none.
C7_TemplateOrder ==
    (Called("build_argv") /\ request[1].cmd_id \in DOMAIN ALLOWLIST /\ response[1].ok) =>
        LET args  == request[1].args
            units == SelectSeq(Units(ALLOWLIST[request[1].cmd_id]),
                               LAMBDA u : u.lit \/ u.pair.name \in DOMAIN args)
            argv  == response[1].val
        IN  /\ Len(argv) = Len(units)
            /\ \A k \in 1..Len(units) :
                  IF units[k].lit THEN argv[k] = units[k].tok
                  ELSE LET value == args[units[k].pair.name] IN
                       IF value.t = "str"
                            /\ Get(units[k].pair.config, "type", "None") = "file"
                          THEN argv[k] = PathStr(PROJECT_ROOT \o Components(value.v))
                          ELSE argv[k] = StrOf(value)

C7_Witness ==
    /\ Called("build_argv")
    /\ request[1].cmd_id = <<"o", "p", "t">>
    /\ DOMAIN request[1].args = {"file", "msg"}
    /\ response[1].ok
    /\ Len(response[1].val) = 4
    /\ response[1].val[3] = <<"--tail">>

\* the status the /run handler is to answer with, given the rate window and
\* the time at which the request is handled
ClaimedStatus(req, requests, t) ==
    IF Len(Prune(requests, t)) >= RATE_LIMIT THEN 429
    ELSE IF req.cmd_id \notin DOMAIN ALLOWLIST THEN 403
    ELSE IF ~build_argv(req.cmd_id, req.args, ALLOWLIST).ok THEN 400
    ELSE 200

\* C8: a /run request that passes shape validation is answered 429 if the
\* rate check rejects it, otherwise 403 if cmd_id is not allow-listed,
\* otherwise 400 if an argument is missing, an invalid identifier, too long
\* or a path violation, and 200 in every other case.
C8_StatusTable ==
    [][(request # None /\ response = None /\ response' # None
          /\ request[1].endpoint = "/run" /\ ShapeOk(request[1])) =>
          response'[1].status = ClaimedStatus(request[1], rate_limit_store, now)]_vars

\* the fixed words of the messages; what else a message holds are the
\* characters of the values put into it
MessageWords ==
    {"Invalid path: ", "Internal error: ", "Invalid run_id format: ",
     "Missing required argument: ", "Argument too long: ", "Command '",
     "' not in allow-list", "Rate limit exceeded: 15 requests per minute",
     "validation error"}

\* the message holds a path that begins at the file system's root
HoldsAbsolutePath(msg) ==
    \E i \in 1..Len(msg) : msg[i] = "/" /\ (i = 1 \/ msg[i - 1] \in MessageWords)

\* the error texts of an answer: the detail of an HTTP error, the error
\* field of a body
ErrorTexts(resp) ==
    {resp.detail[k] : k \in 1..Len(resp.detail)}
    \cup (IF resp.body = None THEN {}
          ELSE {resp.body[1].error[k] : k \in 1..Len(resp.body[1].error)})

\* C9: no error text returned to a client holds an absolute file system
\* path, neither a rejected path the caller gave nor the project root.
C9_NoAbsolutePathInErrors ==
    (request # None /\ response # None /\ request[1].endpoint = "/run") =>
        \A msg \in ErrorTexts(response[1]) : ~HoldsAbsolutePath(msg)

\* the calls before the last one that were accepted less than a window ago
RecentAccepted ==
    {i \in 1..(Len(history) - 1) :
        history[i].ok /\ history[i].t > history[Len(history)].t - WINDOW_SECONDS}

CountedTimes ==
    LET counted == SelectSeq(history,
                       LAMBDA h : h.ok /\ h.t > history[Len(history)].t - WINDOW_SECONDS)
    IN  [k \in 1..Len(counted) |-> counted[k].t]

\* C11: a rejected check_rate_limit call does not record its attempt: the
\* window holds exactly the timestamps of the accepted calls that survived
\* pruning, so a call is accepted exactly when fewer than 15 earlier calls
\* were accepted within the window, however many attempts were rejected.
C11_RejectedNotRecorded ==
    (Len(history) > 0) =>
        /\ rate_limit_store = CountedTimes
        /\ history[Len(history)].ok <=> Cardinality(RecentAccepted) < RATE_LIMIT

\* 15 calls accepted, then two rejected, then a call accepted at the moment
\* the window of the first 15 has elapsed
C11_Witness ==
    /\ Len(history) = RATE_LIMIT + 3
    /\ \A i \in 1..RATE_LIMIT : history[i].ok
    /\ ~history[RATE_LIMIT + 1].ok /\ ~history[RATE_LIMIT + 2].ok
    /\ history[RATE_LIMIT + 2].t > history[RATE_LIMIT + 1].t
    /\ history[RATE_LIMIT + 3].ok
    /\ history[RATE_LIMIT + 3].t = history[RATE_LIMIT].t + WINDOW_SECONDS
    /\ rate_limit_store = <<now>>

HealthPending ==
    request # None /\ response = None /\ request[1].endpoint = "/health"

BuiltFor(req) == build_argv(req.cmd_id, req.args, ALLOWLIST)

\* what the same request without dry_run hands to the executor, from an
\* empty rate window, whatever the child does
PassedToProcess(req, t) ==
    {run_command([req EXCEPT !.dry_run = FALSE], <<>>, t, child).spawned :
        child \in Children}

\* C14: a /run request with dry_run=true spawns no child process and prints
\* no log line; when it passes the rate check and its argv builds, the answer
\* is 200 with ok=true and the computed argv, which is the vector the same
\* request with dry_run=false passes to the process.
C14_DryRunNeverSpawns ==
    (RunAnswered /\ request[1].dry_run) =>
        /\ spawned = <<>>
        /\ log_lines = <<>>
        /\ (response[1].status # 429 /\ BuiltFor(request[1]).ok) =>
              /\ response[1].status = 200
              /\ response[1].body[1].ok
              /\ response[1].body[1].argv = Some(BuiltFor(request[1]).val)
              /\ response[1].body[1].returncode = None
              /\ PassedToProcess(request[1], now) = {response[1].body[1].argv}

\* a dry run of the validate command with a file inside the project root
C14_Witness ==
    /\ RunAnswered
    /\ request[1].dry_run
    /\ request[1].cmd_id = ValidateCmd
    /\ response[1].status = 200
    /\ response[1].body[1].ok
    /\ response[1].body[1].argv = Some(<<<<"mova">>, <<"validate">>, <<"/", "r", "/", "a">>>>)
    /\ spawned = <<>>

\* C15: whenever /run hands a vector to the executor the answer is 200 with
\* returncode, stdout_tail, stderr_tail and duration_ms present, and ok is
\* true exactly when returncode is 0: a non-zero exit, a timeout and a spawn
\* failure (returncode -1) are answered 200 with ok=false.
C15_ExecutedAnswer ==
    (RunAnswered /\ spawned # <<>>) =>
        /\ response[1].status = 200
        /\ response[1].body # None
        /\ response[1].body[1].returncode # None
        /\ response[1].body[1].stdout_tail # None
        /\ response[1].body[1].stderr_tail # None
        /\ response[1].body[1].duration_ms # None
        /\ response[1].body[1].ok <=> response[1].body[1].returncode = Some(0)

\* a child that outlives the timeout: 200, ok=false, returncode -1
C15_Witness ==
    /\ RunAnswered
    /\ spawned # <<>>
    /\ response[1].status = 200
    /\ ~response[1].body[1].ok
    /\ response[1].body[1].returncode = Some(-1)
    /\ response[1].body[1].stderr_tail =
          Some(<<"Command timed out after ", "60", " seconds">>)
    /\ response[1].body[1].duration_ms = Some(60000)

\* the request reached the executor: it passed the rate check, its argv was
\* built and it was no dry run
ReachedExecution ==
    /\ response[1].status # 429
    /\ BuiltFor(request[1]).ok
    /\ ~request[1].dry_run

\* C18: a /run request spawns at most one child process; one that reaches
\* execution spawns exactly one and prints exactly one log line, which
\* carries the return code and the duration of the finished process, also
\* when the process fails or times out; one that does not reach execution
\* (rate-limited, rejected by build_argv, dry run) prints no log line.
C18_OneSpawnOneLog ==
    RunAnswered =>
        /\ Len(spawned) = (IF ReachedExecution THEN 1 ELSE 0)
        /\ Len(log_lines) = Len(spawned)
        /\ spawned # <<>> =>
              /\ spawned[1] = BuiltFor(request[1]).val
              /\ log_lines[1].action = request[1].cmd_id
              /\ log_lines[1].argv = spawned[1]
              /\ Some(log_lines[1].rc) = response[1].body[1].returncode
              /\ Some(log_lines[1].dur_ms) = response[1].body[1].duration_ms

\* a child that exits with 1: one spawn, one log line, no second attempt
C18_Witness ==
    /\ RunAnswered
    /\ Len(spawned) = 1
    /\ Len(log_lines) = 1
    /\ log_lines[1].rc = 1
    /\ response[1].body[1].returncode = Some(1)

\* what a returned outcome holds
OutcomeFields == {"returncode", "stdout_tail", "stderr_tail", "duration_ms"}

\* C16: execute_command always returns an outcome and never raises: a child
\* that outlives timeout_sec gives returncode -1, an empty stdout_tail and a
\* stderr_tail that says the command timed out; a child that cannot be
\* spawned gives returncode -1 and a stderr_tail that names the error.
C16_AlwaysAnOutcome ==
    Called("execute_command") =>
        LET child   == request[1].child
            timeout == request[1].timeout_sec
            outcome == response[1]
        IN  /\ DOMAIN outcome = OutcomeFields
            /\ ~child.spawns =>
                  /\ outcome.returncode = -1
                  /\ outcome.stdout_tail = <<>>
                  /\ outcome.stderr_tail = <<"Execution error: ", child.error>>
            /\ (child.spawns /\ child.run_secs > timeout) =>
                  /\ outcome.returncode = -1
                  /\ outcome.stdout_tail = <<>>
                  /\ outcome.stderr_tail =
                        <<"Command timed out after ", ToString(timeout), " seconds">>
                  /\ outcome.duration_ms >= timeout * 1000
            /\ (child.spawns /\ child.run_secs <= timeout) =>
                  outcome.returncode = child.returncode

\* timeout_sec = 1 against a child that runs for 10 seconds
C16_Witness ==
    /\ Called("execute_command")
    /\ request[1].timeout_sec = 1
    /\ request[1].child.spawns /\ request[1].child.run_secs = 10
    /\ response[1].returncode = -1
    /\ response[1].stderr_tail = <<"Command timed out after ", "1", " seconds">>
    /\ response[1].duration_ms >= 1000

\* tail is the trailing slice of stream, of at most OUTPUT_LIMIT characters
IsTrailingSlice(tail, stream) ==
    /\ Len(tail) = (IF Len(stream) <= OUTPUT_LIMIT THEN Len(stream) ELSE OUTPUT_LIMIT)
    /\ \A k \in 1..Len(tail) : tail[k] = stream[Len(stream) - Len(tail) + k]

\* C17: for every child output, stdout_tail and stderr_tail are each at most
\* 4000 characters long and are the trailing slice of the captured stream:
\* the whole stream when it has at most 4000 characters, its last 4000
\* characters otherwise.
C17_TailOfOutput ==
    (Called("execute_command") /\ request[1].child.spawns
       /\ request[1].child.run_secs <= request[1].timeout_sec) =>
        /\ Len(response[1].stdout_tail) <= OUTPUT_LIMIT
        /\ Len(response[1].stderr_tail) <= OUTPUT_LIMIT
        /\ IsTrailingSlice(response[1].stdout_tail, request[1].child.stdout)
        /\ IsTrailingSlice(response[1].stderr_tail, request[1].child.stderr)

\* a stdout of 4001 characters is cut to its last 4000, a stderr of 3999
\* characters is kept whole
C17_Witness ==
    /\ Called("execute_command")
    /\ response[1].returncode = 0
    /\ Len(request[1].child.stdout) = OUTPUT_LIMIT + 1
    /\ Len(response[1].stdout_tail) = OUTPUT_LIMIT
    /\ response[1].stdout_tail[1] = request[1].child.stdout[2]
    /\ response[1].stdout_tail[1] # request[1].child.stdout[1]
    /\ Len(request[1].child.stderr) = OUTPUT_LIMIT - 1
    /\ response[1].stderr_tail = request[1].child.stderr

ProxyEndpoints == {"/validate", "/execute", "/logs", "/introspect"}

\* a request to a proxy endpoint has been answered by its handler
ProxyAnswered ==
    /\ request # None /\ response # None
    /\ request[1].endpoint \in ProxyEndpoints
    /\ request[1].endpoint \in BodyEndpoints => ShapeOk(request[1])

\* the remote engine answered the forwarded call with 200 and a JSON document
RemoteSucceeded ==
    /\ remote_calls # <<>>
    /\ remote_calls[1].reply.reachable
    /\ remote_calls[1].reply.status = 200
    /\ remote_calls[1].reply.json # None

\* C19: when the remote engine answers a proxy operation with success, the
\* answer to the client is 200 with ok=true and the remote engine's JSON
\* document under "result".
C19_RemoteResultReturned ==
    (ProxyAnswered /\ RemoteSucceeded) =>
        /\ response[1].status = 200
        /\ response[1].body[1].ok
        /\ "result" \in DOMAIN response[1].body[1]
        /\ response[1].body[1].result = remote_calls[1].reply.json

\* the remote engine could not be reached, or answered outside 2xx
RemoteFailed ==
    /\ remote_calls # <<>>
    /\ \/ ~remote_calls[1].reply.reachable
       \/ remote_calls[1].reply.status \notin 200..299

\* the envelope was not forwarded although the request named one: its path
\* was rejected, or the file is missing or is not JSON
EnvelopeFailed ==
    /\ request[1].endpoint \in {"/validate", "/execute"}
    /\ request[1].cmd_id = (IF request[1].endpoint = "/validate" THEN ValidateCmd ELSE RunCmd)
    /\ "file" \in DOMAIN request[1].args
    /\ response[1].status # 429
    /\ remote_calls = <<>>

\* C20: a proxy operation that fails because the remote engine answers
\* outside 2xx or cannot be reached, or because the envelope file is
\* rejected, missing or not JSON, is answered with a 4xx or 5xx status,
\* never with 200.
C20_ProxyFailureStatus ==
    (ProxyAnswered /\ (RemoteFailed \/ EnvelopeFailed)) =>
        response[1].status \in 400..599

\* no string value of args holds a line feed or a carriage return
NoLineBreaks(args) ==
    \A key \in DOMAIN args :
        args[key].t = "str" =>
            \A i \in 1..Len(args[key].v) : args[key].v[i] \notin {"\n", "\r"}

\* a request whose body is a CommandRequest has been answered
BodyAnswered ==
    request # None /\ response # None /\ request[1].endpoint \in BodyEndpoints

\* C21: a CommandRequest passes shape validation if and only if its cmd_id
\* matches ^[A-Za-z0-9_-]+$ and no string value of args holds a line break;
\* a request that fails it is rejected before the rate check: it leaves the
\* rate window as it was and reaches neither build_argv nor the executor.
C21_ShapeValidation ==
    /\ [](BodyAnswered =>
            /\ response[1].status # 422 <=>
                  (MatchesIdentifier(request[1].cmd_id) /\ NoLineBreaks(request[1].args))
            /\ response[1].status = 422 =>
                  (spawned = <<>> /\ log_lines = <<>> /\ remote_calls = <<>>))
    /\ [][(request # None /\ response = None /\ response' # None
            /\ response'[1].status = 422) =>
              rate_limit_store' = rate_limit_store]_vars

\* C22: on both paths that forward a run identifier to the remote engine's
\* logs endpoint, GET /logs/{run_id} of the gateway and GET
\* /api/logs/{run_id} of the web interface, a forwarded identifier matches
\* ^[A-Za-z0-9_-]+$.
C22_ForwardedIdentifierChecked ==
    (request # None /\ request[1].endpoint \in {"/logs", "/api/logs"}
       /\ remote_calls # <<>>) =>
        /\ MatchesIdentifier(request[1].run_id)
        /\ remote_calls[1].url = <<"/v1/runs/">> \o request[1].run_id \o <<"/logs">>

\* the literals and the placeholders with a value, in template order: one
\* for each element of a vector that was built
Emitted(cmd_id, args) ==
    SelectSeq(Units(ALLOWLIST[cmd_id]), LAMBDA u : u.lit \/ u.pair.name \in DOMAIN args)

\* C23: the argv element that build_argv emits for a placeholder of type
\* file never holds the shell separator ';'.
C23_NoSeparatorInFileElement ==
    (Called("build_argv") /\ request[1].cmd_id \in DOMAIN ALLOWLIST /\ response[1].ok) =>
        LET units == Emitted(request[1].cmd_id, request[1].args)
            argv  == response[1].val
        IN  \A k \in 1..Len(units) :
                (~units[k].lit /\ Get(units[k].pair.config, "type", "None") = "file") =>
                    \A i \in 1..Len(argv[k]) : argv[k][i] # ";"

\* the value is a string of at most 1000 characters without a line break
PlainString(value) ==
    /\ value.t = "str"
    /\ Len(value.v) <= MAX_ARG_LEN
    /\ \A i \in 1..Len(value.v) : value.v[i] \notin {"\n", "\r"}

EchoCmd == <<"e", "c", "h", "o", "_", "t", "e", "s", "t">>

\* C28: for a placeholder of kind string, build_argv appends the value only
\* if it is a string of at most 1000 characters without a line break; any
\* other value makes it fail with HTTP 400.
C28_StringKindChecked ==
    (Called("build_argv") /\ request[1].cmd_id = EchoCmd
       /\ "msg" \in DOMAIN request[1].args) =>
        IF PlainString(request[1].args["msg"])
           THEN response[1].ok /\ response[1].val[2] = request[1].args["msg"].v
           ELSE ~response[1].ok /\ response[1].exc = "HTTPException"
                /\ response[1].status = 400


NotOlderTimes ==
    LET kept == SelectSeq(history,
                    LAMBDA h : h.ok /\ h.t >= history[Len(history)].t - WINDOW_SECONDS)
    IN  [k \in 1..Len(kept) |-> kept[k].t]

\* C29: after every check_rate_limit call, accepted or rejected, the window
\* holds at most 15 timestamps, and exactly those of the accepted calls that
\* are not older than now - 60 s: one exactly 60 s old is still held.
C29_WindowHoldsLastSixtySeconds ==
    (Len(history) > 0) =>
        /\ Len(rate_limit_store) <= RATE_LIMIT
        /\ rate_limit_store = NotOlderTimes


\* a request to one of the five rate-limited endpoints is being handled
RateLimitedPending ==
    /\ request # None /\ response = None
    /\ request[1].endpoint \in {RateLimitedEndpoints[k] : k \in DOMAIN RateLimitedEndpoints}

\* C30: a request to /run, /validate, /execute, /logs/{run_id} or /introspect
\* that passes the rate check leaves exactly one timestamp, its own, at the end
\* of the pruned window, whatever the handler answers afterwards (403, 400,
\* a dry run, a remote error, an executed command).
C30_AcceptedAlwaysRecorded ==
    [][(RateLimitedPending /\ response' # None /\ response'[1].status \notin {422, 429})
          => rate_limit_store' = Append(Prune(rate_limit_store, now), now)]_vars

\* an unknown command was answered 403 after its timestamp was recorded
C30_Witness ==
    /\ RunAnswered
    /\ response[1].status = 403
    /\ rate_limit_store # <<>>
    /\ rate_limit_store[Len(rate_limit_store)] = now


\* the two complete paths of a /run request, and what has been passed of them
Prefixes(path) == {SubSeq(path, 1, k) : k \in 0..Len(path)}
StagePaths ==
    Prefixes(<<"Received", "RateChecked", "ArgvBuilt", "DryRunReturned">>)
        \cup Prefixes(<<"Received", "RateChecked", "ArgvBuilt", "Executed">>)

\* the trace follows a path, and the answer, if given, ends it
StagesInOrder(trace) ==
    \/ trace \in StagePaths
    \/ /\ trace # <<>>
       /\ trace[Len(trace)] = "Responded"
       /\ SubSeq(trace, 1, Len(trace) - 1) \in StagePaths

HasStage(name) == \E k \in DOMAIN stages : stages[k] = name

\* a well-formed /run request is about to be handled
RunPending ==
    /\ request # None /\ response = None
    /\ request[1].endpoint = "/run"
    /\ ShapeOk(request[1])

\* the stages and effects of a request the rate check rejects
RateRejectedStep ==
    /\ stages' = <<"Received", "RateChecked", "Responded">>
    /\ response'[1].status = 429
    /\ spawned' = <<>> /\ log_lines' = <<>>

\* the stages and effects of a request build_argv rejects
BuildRejectedStep ==
    /\ stages' = <<"Received", "RateChecked", "ArgvBuilt", "Responded">>
    /\ spawned' = <<>> /\ log_lines' = <<>>

\* the stages of a request whose vector was built
BuiltStep ==
    stages' = <<"Received", "RateChecked", "ArgvBuilt",
                IF request[1].dry_run THEN "DryRunReturned" ELSE "Executed",
                "Responded">>

\* C25: a /run request passes its stages only in the order Received,
\* RateChecked, ArgvBuilt, DryRunReturned or Executed, Responded, and a
\* failure is terminal: rejected by the rate check it never reaches
\* build_argv (no allow-list lookup, no path sanitization) and spawns
\* nothing; rejected by build_argv it spawns nothing and logs nothing.
C25_StagesInOrder ==
    /\ []((request # None /\ request[1].endpoint = "/run") =>
            /\ StagesInOrder(stages)
            /\ (spawned # <<>>) <=> HasStage("Executed")
            /\ (log_lines # <<>>) => HasStage("Executed"))
    /\ [][(RunPending /\ response' # None) =>
            IF AtCapacity(Prune(rate_limit_store, now)) THEN RateRejectedStep
            ELSE IF ~build_argv(request[1].cmd_id, request[1].args, ALLOWLIST).ok
                 THEN BuildRejectedStep
            ELSE BuiltStep]_vars

\* a request over the limit was answered 429 straight after the rate check
C25_Witness ==
    /\ RunAnswered
    /\ response[1].status = 429
    /\ stages = <<"Received", "RateChecked", "Responded">>
    /\ request[1].cmd_id = ValidateCmd
    /\ "file" \in DOMAIN request[1].args


\* how often the time v is in a sequence of timestamps
Occurrences(times, v) == Cardinality({k \in DOMAIN times : times[k] = v})

\* C26: however the requests interleave, the window never holds more than 15
\* timestamps, it holds only timestamps of accepted requests, and every
\* accepted timestamp of the last 60 seconds is in it.
C26_RateCheckAtomic ==
    /\ Len(rate_limit_store) <= RATE_LIMIT
    /\ \A k \in DOMAIN rate_limit_store :
          Occurrences(rate_limit_store, rate_limit_store[k])
              = Occurrences(history, rate_limit_store[k])
    /\ \A k \in DOMAIN history :
          history[k] > now - WINDOW_SECONDS =>
              Occurrences(rate_limit_store, history[k]) = Occurrences(history, history[k])

\* a request took the last place in the window and is suspended in its
\* remote call while another request, served meanwhile, was rejected
C26_Witness ==
    \E i, j \in DOMAIN tasks :
        /\ tasks[i].pc = "awaiting"
        /\ tasks[j].pc = "done"
        /\ tasks[j].response.status = 429
        /\ Len(rate_limit_store) = RATE_LIMIT
        /\ rate_limit_store[RATE_LIMIT] = tasks[i].t

\* the loop can serve the waiting request of task j now
LoopServes(j) == Observe(j) \/ ServeHealth(j)

\* C27: while a /run request waits for its child process, any other request
\* that has been sent can be served at once.
C27_ChildNeverStalls ==
    [](\A i, j \in DOMAIN tasks :
          (tasks[i].pc = "child" /\ tasks[j].pc = "sent") => ENABLED LoopServes(j))

====
